---- MODULE Spec2Model ----
(***************************************************************************)
(* A model of server.js: the two in-memory conversation stores with the    *)
(* ask / asktranscript / clear handlers of app.get('/api'), and the        *)
(* transcript search (findTranscriptsLocal / findTranscriptsGDrive).       *)
(*                                                                         *)
(* A handler is cut into one action per stretch of code between two awaits *)
(* (Node runs such a stretch without interleaving).  Conversation objects  *)
(* are JavaScript references: the maps hold references into a heap, and a  *)
(* handler keeps the reference it obtained before its first await.         *)
(***************************************************************************)
EXTENDS Integers, Sequences, FiniteSets, TLC

VARIABLES
  conversations,            \* Map sessionId -> reference (general Q&A)
  transcriptConversations,  \* Map sessionId -> reference (transcript Q&A)
  heap,                     \* reference -> conversation object
  reqs,                     \* the requests whose handler is suspended at an await
  nreq,                     \* number of requests received so far
  res,                      \* the last response sent with res.json
  lastEvent,                \* per store and session: the last request answered
  source,                   \* the document source: the backend and its folder tree
  find,                     \* the findtranscripts request in progress: its locals
  found                     \* the last result of findTranscripts

convVars == <<conversations, transcriptConversations, heap, reqs, nreq, res, lastEvent>>

findVars == <<source, find, found>>

vars == <<conversations, transcriptConversations, heap, reqs, nreq, res, lastEvent,
          source, find, found>>

----------------------------------------------------------------------------
(* Bounds of the model and constants of the program *)

MaxRequests == 3
MaxInFlight == 2

MAX_CONVERSATION_HISTORY == 20

Null == "null"
\* context: null, where a filter fingerprint is expected
NullKey == <<>>

\* req.query.sessionId as the clients send it
Clients == {"s1"}
\* req.query.type ; the other filter fields are sent empty
TypeParams == {"", "all", "Note"}
\* req.query.id and req.query.question of asktranscript ("" : absent)
IdParams == {"", "t1", "t2"}
QuestionParams == {"", "q1"}

----------------------------------------------------------------------------
(* Conversation stores *)

\* { history: [], context: null }
NewConversation == [history |-> <<>>, context |-> NullKey]

\* { history: [], transcriptId: null }
NewTranscriptConversation == [history |-> <<>>, transcriptId |-> Null]

\* a reference the heap does not hold yet
NewRef(h) == CHOOSE r \in 1..(Cardinality(DOMAIN h) + 1) : r \notin DOMAIN h

Put(f, k, v) == [x \in DOMAIN f \cup {k} |-> IF x = k THEN v ELSE f[x]]

Drop(f, k) == [x \in DOMAIN f \ {k} |-> f[x]]

\* getConversation / getTranscriptConversation: the existing entry, or a new
\* object stored under sessionId.  Yields the map, the heap and the reference.
GetEntry(map, h, sessionId, fresh) ==
  IF sessionId \in DOMAIN map
    THEN [map |-> map, heap |-> h, ref |-> map[sessionId]]
    ELSE LET r == NewRef(h)
         IN  [map |-> Put(map, sessionId, r), heap |-> Put(h, r, fresh), ref |-> r]

getConversation(map, h, sessionId) == GetEntry(map, h, sessionId, NewConversation)

getTranscriptConversation(map, h, sessionId) ==
  GetEntry(map, h, sessionId, NewTranscriptConversation)

\* clearConversation deleting nothing
clearConversationKept(map, sessionId) == map

\* conversations.delete(sessionId)
clearConversation(map, sessionId) == Drop(map, sessionId)

\* clearTranscriptConversation emptying the map
clearTranscriptConversationAll(map, sessionId) == <<>>

\* transcriptConversations.delete(sessionId)
clearTranscriptConversation(map, sessionId) == Drop(map, sessionId)

\* Objects no map entry and no suspended handler refers to are garbage.
Live(cs, ts, rq) ==
  {cs[s] : s \in DOMAIN cs} \cup {ts[s] : s \in DOMAIN ts} \cup {r.conv : r \in rq}

Collect(h, cs, ts, rq) == [x \in DOMAIN h \cap Live(cs, ts, rq) |-> h[x]]

----------------------------------------------------------------------------
(* Request parameters and prompts *)

\* req.query.sessionId || "default"  /  String(p.sessionId || "tr_default").trim()
SessionOf(param, dflt) == IF param = "" THEN dflt ELSE param

\* the params object of the ask branch: type defaults to "all"
ParamsOf(type) ==
  [from |-> "", to |-> "", type |-> IF type = "" THEN "all" ELSE type,
   countries |-> "", topic |-> ""]

\* JSON.stringify({from, to, type, countries, topic}): the fields in this order
FiltersKey(params) ==
  <<"from", params.from, "to", params.to, "type", params.type,
    "countries", params.countries, "topic", params.topic>>

\* The text of a turn.  context stands for the background a prompt embeds: the
\* items block of the rows fetched under a fingerprint, or a transcript's text.
\* buildPromptSimple and the first-turn prompt of askTranscript embed it,
\* the two follow-up templates hold the question only.
FullPrompt(question, context) ==
  [template |-> "full", question |-> question, context |-> context, answer |-> 0]

FollowUpPrompt(question) ==
  [template |-> "followup", question |-> question, context |-> <<>>, answer |-> 0]

NoPrompt == [template |-> "none", question |-> "", context |-> <<>>, answer |-> 0]

\* the items block built from the rows fetched for params
ItemsOf(params) == FiltersKey(params)

\* the text read from transcript id
TextOf(id) == <<"transcript", id>>

UserTurn(prompt) == [role |-> "user", text |-> prompt]

\* the text gemini returned to request n
ModelTurn(n) ==
  [role |-> "model",
   text |-> [template |-> "answer", question |-> "", context |-> <<>>, answer |-> n]]

\* slice keeping the first k entries
SliceFirst(s, k) == IF Len(s) > k THEN SubSeq(s, 1, k) ELSE s

\* history.slice(-k)
SliceLast(s, k) == IF Len(s) > k THEN SubSeq(s, Len(s) - k + 1, Len(s)) ELSE s

\* AppendTurns without the trim
AppendTurnsUntrimmed(history, prompt, n) ==
  history \o <<UserTurn(prompt), ModelTurn(n)>>

\* push the user turn and the model turn, then trim to the last 2 * 20 entries
AppendTurns(history, prompt, n) ==
  LET pushed == history \o <<UserTurn(prompt), ModelTurn(n)>>
  IN  IF Len(pushed) > MAX_CONVERSATION_HISTORY * 2
        THEN SliceLast(pushed, MAX_CONVERSATION_HISTORY * 2)
        ELSE pushed

----------------------------------------------------------------------------
(* What a client sees of a session, and the bookkeeping of the requests *)

General == "general"
Transcript == "transcript"

MapOf(store) == IF store = General THEN conversations ELSE transcriptConversations

\* The state get(sessionId) would yield: the stored object, or a new one.
StateOf(map, h, sessionId, fresh) ==
  IF sessionId \in DOMAIN map THEN h[map[sessionId]] ELSE fresh

FreshOf(store) == IF store = General THEN NewConversation ELSE NewTranscriptConversation

View(store, sessionId) == StateOf(MapOf(store), heap, sessionId, FreshOf(store))

\* the sessions of the two stores the clients address
Sessions ==
  {<<General, SessionOf(sp, "default")>> : sp \in Clients} \cup
  {<<Transcript, SessionOf(sp, "tr_default")>> : sp \in Clients}

\* The last request answered on a session.  kind: none, ask, asktranscript,
\* invalid or clear; arg: the fingerprint or transcript of an answered ask, and
\* prompt: its prompt; turns: the length of the session's history when the
\* request arrived; solo: whether the request ran alone on its session.
Event(kind, n, ok, arg, prompt, turns, solo) ==
  [kind |-> kind, n |-> n, ok |-> ok, arg |-> arg, prompt |-> prompt, turns |-> turns,
   solo |-> solo]

NoEvent == Event("none", 0, FALSE, <<>>, NoPrompt, 0, TRUE)

\* res.json({ ok, error, conversationLength, isNewConversation })
Response(n, action, sessionId, ok, error, conversationLength, isNewConversation) ==
  [n |-> n, action |-> action, sid |-> sessionId, ok |-> ok, error |-> error,
   conversationLength |-> conversationLength, isNewConversation |-> isNewConversation]

NoResponse == Response(0, "none", "", TRUE, "", 0, FALSE)

OnSession(rq, store, sessionId) == {r \in rq : r.store = store /\ r.sid = sessionId}

\* A suspended request is solo while no other request touches its session.
Disturb(rq, store, sessionId) ==
  {IF r.store = store /\ r.sid = sessionId THEN [r EXCEPT !.solo = FALSE] ELSE r : r \in rq}

\* A request whose handler is suspended.  conv, params / id, question,
\* needsNewContext / isNewTranscript and prompt are the handler's locals; sent is
\* the history handed to gemini; solo, before and prev record the circumstances
\* of the request: whether it ran alone on its session, the state of the
\* session and the last event on the session when it arrived.
Request(n, store, sessionId, conv, stage, params, id, question, isNew, solo, before, prev) ==
  [n |-> n, store |-> store, sid |-> sessionId, conv |-> conv, stage |-> stage,
   params |-> params, id |-> id, question |-> question,
   needsNewContext |-> FALSE, isNewTranscript |-> isNew,
   prompt |-> NoPrompt, sent |-> <<>>,
   solo |-> solo, before |-> before, prev |-> prev]

Key(s, sessionId) == <<s, sessionId>>

----------------------------------------------------------------------------
(* action=ask *)

\* Lines 728-743: the session's conversation is looked up (and created), the
\* parameters are read, and the handler awaits fetchFromSupabase.
AskStart(n, sessionParam, type, question) ==
  LET sessionId == SessionOf(sessionParam, "default")
      got == getConversation(conversations, heap, sessionId)
  IN  /\ conversations' = got.map
      /\ heap' = got.heap
      /\ reqs' = Disturb(reqs, General, sessionId) \cup
                  {Request(n, General, sessionId, got.ref, "fetch", ParamsOf(type), "",
                           question, FALSE, OnSession(reqs, General, sessionId) = {},
                           View(General, sessionId), lastEvent[Key(General, sessionId)])}
      /\ nreq' = n
      /\ UNCHANGED <<transcriptConversations, res, lastEvent, source, find, found>>

\* The response of a request that failed: the catch of lines 795-797, or an
\* { ok: false, error } result of askTranscript.
Fail(r, action, error) ==
  /\ reqs' = reqs \ {r}
  /\ heap' = Collect(heap, conversations, transcriptConversations, reqs \ {r})
  /\ res' = Response(r.n, action, r.sid, FALSE, error, 0, FALSE)
  /\ lastEvent' = [lastEvent EXCEPT ![Key(r.store, r.sid)] =
                     Event(action, r.n, FALSE, <<>>, NoPrompt, Len(r.before.history), r.solo)]
  /\ UNCHANGED <<conversations, transcriptConversations, nreq, source, find, found>>

\* fetchFromSupabase throws (line 743)
AskFetchFail(r) ==
  /\ r \in reqs /\ r.store = General /\ r.stage = "fetch"
  /\ Fail(r, "ask", "supabase")

\* NeedsNewContext looking at the history only
NeedsNewContextIfEmpty(conversation, filtersKey) ==
  Len(conversation.history) = 0

\* NeedsNewContext rebuilding the context on every request
NeedsNewContextAlways(conversation, filtersKey) == TRUE

\* Line 747: the full context is due when the fingerprint differs from the
\* stored one or the history is empty
NeedsNewContext(conversation, filtersKey) ==
  conversation.context # filtersKey \/ Len(conversation.history) = 0

\* What lines 746-759 leave in the conversation object
AskContext(obj, filtersKey, needsNewContext) ==
  IF needsNewContext THEN [history |-> <<>>, context |-> filtersKey] ELSE obj

\* Lines 743-762: the rows arrive; the fingerprint decides between the full
\* prompt (the conversation is reset) and the follow-up; gemini is called with
\* conversation.history.
AskPrompt(r) ==
  /\ r \in reqs /\ r.store = General /\ r.stage = "fetch"
  /\ LET conversation == heap[r.conv]
         filtersKey == FiltersKey(r.params)
         needsNewContext == NeedsNewContext(conversation, filtersKey)
         prompt == IF needsNewContext THEN FullPrompt(r.question, ItemsOf(r.params))
                                      ELSE FollowUpPrompt(r.question)
         after == AskContext(conversation, filtersKey, needsNewContext)
     IN  /\ heap' = [heap EXCEPT ![r.conv] = after]
         /\ reqs' = (reqs \ {r}) \cup
                     {[r EXCEPT !.stage = "gemini", !.needsNewContext = needsNewContext,
                                !.prompt = prompt, !.sent = after.history]}
  /\ UNCHANGED <<conversations, transcriptConversations, nreq, res, lastEvent,
                 source, find, found>>

\* gemini throws (line 762)
AskGeminiFail(r) ==
  /\ r \in reqs /\ r.store = General /\ r.stage = "gemini"
  /\ Fail(r, "ask", "gemini")

\* AskFinish looking the conversation up again when the answer arrives
AskFinishLookedUp(r) ==
  /\ r \in reqs /\ r.store = General /\ r.stage = "gemini"
  /\ LET got == getConversation(conversations, heap, r.sid)
         conversation == got.heap[got.ref]
         history == AppendTurns(conversation.history, r.prompt, r.n)
         stored == [got.heap EXCEPT ![got.ref] = [conversation EXCEPT !.history = history]]
     IN  /\ conversations' = got.map
         /\ heap' = Collect(stored, got.map, transcriptConversations, reqs \ {r})
         /\ res' = Response(r.n, "ask", r.sid, TRUE, "", Len(history) \div 2,
                            r.needsNewContext)
  /\ reqs' = reqs \ {r}
  /\ lastEvent' = [lastEvent EXCEPT ![Key(General, r.sid)] =
                     Event("ask", r.n, TRUE, FiltersKey(r.params), r.prompt,
                           Len(r.before.history), r.solo)]
  /\ UNCHANGED <<transcriptConversations, nreq, source, find, found>>

\* AskFinish storing the two turns behind the history that was sent to gemini
AskFinishOnSent(r) ==
  /\ r \in reqs /\ r.store = General /\ r.stage = "gemini"
  /\ LET conversation == heap[r.conv]
         history == AppendTurns(r.sent, r.prompt, r.n)
         stored == [heap EXCEPT ![r.conv] = [conversation EXCEPT !.history = history]]
     IN  /\ heap' = Collect(stored, conversations, transcriptConversations, reqs \ {r})
         /\ res' = Response(r.n, "ask", r.sid, TRUE, "", Len(history) \div 2,
                            r.needsNewContext)
  /\ reqs' = reqs \ {r}
  /\ lastEvent' = [lastEvent EXCEPT ![Key(General, r.sid)] =
                     Event("ask", r.n, TRUE, FiltersKey(r.params), r.prompt,
                           Len(r.before.history), r.solo)]
  /\ UNCHANGED <<conversations, transcriptConversations, nreq, source, find, found>>

\* Lines 762-791: the answer arrives, the two turns are stored, the history is
\* trimmed and the response is sent.
AskFinish(r) ==
  /\ r \in reqs /\ r.store = General /\ r.stage = "gemini"
  /\ LET conversation == heap[r.conv]
         history == AppendTurns(conversation.history, r.prompt, r.n)
         stored == [heap EXCEPT ![r.conv] = [conversation EXCEPT !.history = history]]
     IN  /\ heap' = Collect(stored, conversations, transcriptConversations, reqs \ {r})
         /\ res' = Response(r.n, "ask", r.sid, TRUE, "", Len(history) \div 2,
                            r.needsNewContext)
  /\ reqs' = reqs \ {r}
  /\ lastEvent' = [lastEvent EXCEPT ![Key(General, r.sid)] =
                     Event("ask", r.n, TRUE, FiltersKey(r.params), r.prompt,
                           Len(r.before.history), r.solo)]
  /\ UNCHANGED <<conversations, transcriptConversations, nreq, source, find, found>>

----------------------------------------------------------------------------
(* action=clearconversation, action=cleartranscriptconversation *)

\* Lines 716-720
ClearConversation(n, sessionParam) ==
  LET sessionId == SessionOf(sessionParam, "default")
      map == clearConversation(conversations, sessionId)
  IN  /\ conversations' = map
      /\ heap' = Collect(heap, map, transcriptConversations, reqs)
      /\ reqs' = Disturb(reqs, General, sessionId)
      /\ res' = Response(n, "clearconversation", sessionId, TRUE, "", 0, FALSE)
      /\ lastEvent' = [lastEvent EXCEPT ![Key(General, sessionId)] =
                         Event("clear", n, TRUE, <<>>, NoPrompt,
                               Len(View(General, sessionId).history),
                               OnSession(reqs, General, sessionId) = {})]
      /\ nreq' = n
      /\ UNCHANGED <<transcriptConversations, source, find, found>>

\* Lines 722-726
ClearTranscriptConversation(n, sessionParam) ==
  LET sessionId == SessionOf(sessionParam, "tr_default")
      map == clearTranscriptConversation(transcriptConversations, sessionId)
  IN  /\ transcriptConversations' = map
      /\ heap' = Collect(heap, conversations, map, reqs)
      /\ reqs' = Disturb(reqs, Transcript, sessionId)
      /\ res' = Response(n, "cleartranscriptconversation", sessionId, TRUE, "", 0, FALSE)
      /\ lastEvent' = [lastEvent EXCEPT ![Key(Transcript, sessionId)] =
                         Event("clear", n, TRUE, <<>>, NoPrompt,
                               Len(View(Transcript, sessionId).history),
                               OnSession(reqs, Transcript, sessionId) = {})]
      /\ nreq' = n
      /\ UNCHANGED <<conversations, source, find, found>>

----------------------------------------------------------------------------
(* action=asktranscript *)

\* Lines 602-607: a missing id or question is answered at once.
AskTranscriptInvalid(n, idParam, question, sessionParam) ==
  LET sessionId == SessionOf(sessionParam, "tr_default")
  IN  /\ idParam = "" \/ question = ""
      /\ res' = Response(n, "asktranscript", sessionId, FALSE,
                         IF idParam = "" THEN "Missing transcript id" ELSE "Missing question",
                         0, FALSE)
      /\ reqs' = Disturb(reqs, Transcript, sessionId)
      /\ lastEvent' = [lastEvent EXCEPT ![Key(Transcript, sessionId)] =
                         Event("invalid", n, FALSE, <<>>, NoPrompt,
                               Len(View(Transcript, sessionId).history),
                               OnSession(reqs, Transcript, sessionId) = {})]
      /\ nreq' = n
      /\ UNCHANGED <<conversations, transcriptConversations, heap, source, find, found>>

\* Lines 602-619: the conversation is looked up (and created), isNewTranscript
\* is decided, and the handler awaits the read of the transcript.
AskTranscriptStart(n, idParam, question, sessionParam) ==
  LET sessionId == SessionOf(sessionParam, "tr_default")
      got == getTranscriptConversation(transcriptConversations, heap, sessionId)
      isNewTranscript == got.heap[got.ref].transcriptId # idParam
  IN  /\ idParam # "" /\ question # ""
      /\ transcriptConversations' = got.map
      /\ heap' = got.heap
      /\ reqs' = Disturb(reqs, Transcript, sessionId) \cup
                  {Request(n, Transcript, sessionId, got.ref, "read", ParamsOf(""), idParam,
                           question, isNewTranscript,
                           OnSession(reqs, Transcript, sessionId) = {},
                           View(Transcript, sessionId),
                           lastEvent[Key(Transcript, sessionId)])}
      /\ nreq' = n
      /\ UNCHANGED <<conversations, res, lastEvent, source, find, found>>

\* AskTranscriptReadFail with the reset of lines 659-660 done before the read
AskTranscriptReadFailResets(r) ==
  /\ r \in reqs /\ r.store = Transcript /\ r.stage = "read"
  /\ reqs' = reqs \ {r}
  /\ heap' = Collect([heap EXCEPT ![r.conv] = [history |-> <<>>, transcriptId |-> r.id]],
                     conversations, transcriptConversations, reqs \ {r})
  /\ res' = Response(r.n, "asktranscript", r.sid, FALSE, "Failed to read transcript", 0, FALSE)
  /\ lastEvent' = [lastEvent EXCEPT ![Key(r.store, r.sid)] =
                     Event("asktranscript", r.n, FALSE, <<>>, NoPrompt,
                           Len(r.before.history), r.solo)]
  /\ UNCHANGED <<conversations, transcriptConversations, nreq, source, find, found>>

\* Lines 620-622: the read throws
AskTranscriptReadFail(r) ==
  /\ r \in reqs /\ r.store = Transcript /\ r.stage = "read"
  /\ Fail(r, "asktranscript", "Failed to read transcript")

\* Line 624: the transcript holds white space only
AskTranscriptEmpty(r) ==
  /\ r \in reqs /\ r.store = Transcript /\ r.stage = "read"
  /\ Fail(r, "asktranscript", "Transcript is empty")

\* Line 631: the transcript text is due for a new transcript or an empty history
NeedsTranscript(isNewTranscript, conversation) ==
  isNewTranscript \/ Len(conversation.history) = 0

\* What lines 631-664 leave in the conversation object
AskTranscriptContext(obj, id, full) ==
  IF full THEN [history |-> <<>>, transcriptId |-> id] ELSE obj

\* Lines 626-666: the text arrives; a new transcript or an empty history gets
\* the full prompt (the conversation is reset), else the follow-up; gemini is
\* called with conversation.history.
AskTranscriptPrompt(r) ==
  /\ r \in reqs /\ r.store = Transcript /\ r.stage = "read"
  /\ LET conversation == heap[r.conv]
         full == NeedsTranscript(r.isNewTranscript, conversation)
         prompt == IF full THEN FullPrompt(r.question, TextOf(r.id))
                           ELSE FollowUpPrompt(r.question)
         after == AskTranscriptContext(conversation, r.id, full)
     IN  /\ heap' = [heap EXCEPT ![r.conv] = after]
         /\ reqs' = (reqs \ {r}) \cup
                     {[r EXCEPT !.stage = "gemini", !.prompt = prompt,
                                !.sent = after.history]}
  /\ UNCHANGED <<conversations, transcriptConversations, nreq, res, lastEvent,
                 source, find, found>>

\* gemini throws (line 666); the catch of lines 795-797 answers
AskTranscriptGeminiFail(r) ==
  /\ r \in reqs /\ r.store = Transcript /\ r.stage = "gemini"
  /\ Fail(r, "asktranscript", "gemini")

\* Lines 666-682: the answer arrives, the two turns are stored, the history is
\* trimmed and the result is returned.
AskTranscriptFinish(r) ==
  /\ r \in reqs /\ r.store = Transcript /\ r.stage = "gemini"
  /\ LET conversation == heap[r.conv]
         history == AppendTurns(conversation.history, r.prompt, r.n)
         stored == [heap EXCEPT ![r.conv] = [conversation EXCEPT !.history = history]]
     IN  /\ heap' = Collect(stored, conversations, transcriptConversations, reqs \ {r})
         /\ res' = Response(r.n, "asktranscript", r.sid, TRUE, "", Len(history) \div 2,
                            r.isNewTranscript \/ Len(history) = 2)
  /\ reqs' = reqs \ {r}
  /\ lastEvent' = [lastEvent EXCEPT ![Key(Transcript, r.sid)] =
                     Event("asktranscript", r.n, TRUE, TextOf(r.id), r.prompt,
                           Len(r.before.history), r.solo)]
  /\ UNCHANGED <<conversations, transcriptConversations, nreq, source, find, found>>

----------------------------------------------------------------------------
(* Text utilities.  A string is the sequence of its characters. *)

Digits == <<"0", "1", "2", "3", "4", "5", "6", "7", "8", "9">>

IsDigit(c) == \E i \in 1..10 : Digits[i] = c

\* the value of a digit character
DigitVal(c) == (CHOOSE i \in 1..10 : Digits[i] = c) - 1

\* +m[k] for a group of digits
NumberOf(s) ==
  LET RECURSIVE Val(_)
      Val(k) == IF k = 0 THEN 0 ELSE 10 * Val(k - 1) + DigitVal(s[k])
  IN  Val(Len(s))

AllDigits(s) == \A i \in 1..Len(s) : IsDigit(s[i])

Upper == <<"A", "B", "R", "S", "T", "V", "X">>
Lower == <<"a", "b", "r", "s", "t", "v", "x">>

\* String.prototype.toLowerCase, on the letters the inputs are written in
ToLowerChar(c) ==
  IF \E i \in 1..Len(Upper) : Upper[i] = c
    THEN Lower[CHOOSE i \in 1..Len(Upper) : Upper[i] = c]
    ELSE c

ToLowerCase(s) == [i \in 1..Len(s) |-> ToLowerChar(s[i])]

\* norm: String(s || "").toLowerCase()
norm(s) == ToLowerCase(s)

\* h.indexOf(w) >= 0
Includes(h, w) ==
  \E i \in 0..(Len(h) - Len(w)) : SubSeq(h, i + 1, i + Len(w)) = w

\* String.prototype.endsWith
EndsWith(s, w) == Len(s) >= Len(w) /\ SubSeq(s, Len(s) - Len(w) + 1, Len(s)) = w

\* anyKeywordHit comparing the haystack as it is written
anyKeywordHitExact(haystack, kwsLower) ==
  IF Len(kwsLower) = 0 THEN TRUE
  ELSE \E k \in 1..Len(kwsLower) : Includes(haystack, kwsLower[k])

\* anyKeywordHit: no keywords hit anything; else some keyword occurs in the
\* lower-cased haystack
anyKeywordHit(haystack, kwsLower) ==
  IF Len(kwsLower) = 0 THEN TRUE
  ELSE \E k \in 1..Len(kwsLower) : Includes(norm(haystack), kwsLower[k])

\* [,\s]: the characters keywords are split on
IsSeparator(c) == c = "," \/ c = " "

\* String(p.keywords || "").split(/[,\s]+/).map(trim).filter(Boolean).map(toLowerCase)
KeywordsOf(param) ==
  LET RECURSIVE Split(_, _, _)
      \* i: next character; word: the term being read; done: the terms read
      Split(i, word, done) ==
        LET closed == IF Len(word) > 0 THEN Append(done, ToLowerCase(word)) ELSE done
        IN  IF i > Len(param) THEN closed
            ELSE IF IsSeparator(param[i]) THEN Split(i + 1, <<>>, closed)
            ELSE Split(i + 1, Append(word, param[i]), done)
  IN  Split(1, <<>>, <<>>)

\* hasAllowedTranscriptExt
hasAllowedTranscriptExt(name) ==
  LET n == ToLowerCase(name)
  IN  \/ EndsWith(n, <<".", "t", "x", "t">>)
      \/ EndsWith(n, <<".", "v", "t", "t">>)
      \/ EndsWith(n, <<".", "s", "r", "t">>)

----------------------------------------------------------------------------
(* Dates.  An instant is a number of seconds since 1970-01-01T00:00:00Z:    *)
(* the instants handled here are whole seconds, so counting seconds for     *)
(* milliseconds changes neither a comparison nor which instant is zero.     *)

\* a value that may be null
NullTime == [null |-> TRUE, t |-> 0]
Time(t) == [null |-> FALSE, t |-> t]

\* the truthiness of a number or null: null and 0 are falsy
Truthy(v) == ~v.null /\ v.t # 0

\* a || b
OrElse(a, b) == IF Truthy(a) THEN a ELSE b

IsLeap(y) == (y % 4 = 0 /\ y % 100 # 0) \/ y % 400 = 0

\* the day number of January 1st of year y (ECMAScript DayFromYear)
DayFromYear(y) ==
  365 * (y - 1970) + ((y - 1969) \div 4) - ((y - 1901) \div 100) + ((y - 1601) \div 400)

\* days of the year before month m (0-based), y a leap year or not
DaysBeforeMonth(m, leap) ==
  <<0, 31, 59, 90, 120, 151, 181, 212, 243, 273, 304, 334>>[m + 1]
    + (IF leap /\ m >= 2 THEN 1 ELSE 0)

\* MakeDate and MakeTime of ECMAScript: months and days past their range
\* carry over
MakeDate(year, month, date, hours, minutes, seconds) ==
  LET y == year + (month \div 12)
      m == month % 12
      day == DayFromYear(y) + DaysBeforeMonth(m, IsLeap(y)) + date - 1
  IN  day * 86400 + hours * 3600 + minutes * 60 + seconds

\* Date.UTC(year, month, date, hours, minutes, seconds): a year of 0 to 99
\* counts from 1900
DateUTC(year, month, date, hours, minutes, seconds) ==
  MakeDate(IF year >= 0 /\ year <= 99 THEN 1900 + year ELSE year,
           month, date, hours, minutes, seconds)

\* String.prototype.trim, for blanks
Trim(s) ==
  LET RECURSIVE L(_), R(_)
      L(i) == IF i <= Len(s) /\ s[i] = " " THEN L(i + 1) ELSE i
      R(j) == IF j >= 1 /\ s[j] = " " THEN R(j - 1) ELSE j
  IN  IF L(1) > R(Len(s)) THEN <<>> ELSE SubSeq(s, L(1), R(Len(s)))

\* Date.prototype.toISOString, as <<year, month, day, hours, minutes, seconds>>:
\* for years of four digits two such texts compare as these tuples do
ToISOString(t) ==
  LET floorDiv(a, b) == IF a >= 0 THEN a \div b ELSE -((-a + b - 1) \div b)
      day == floorDiv(t, 86400)
      sec == t - day * 86400
      RECURSIVE YearOf(_)
      YearOf(y) == IF DayFromYear(y + 1) <= day THEN YearOf(y + 1)
                   ELSE IF DayFromYear(y) > day THEN YearOf(y - 1)
                   ELSE y
      y == YearOf(1970 + floorDiv(day, 366))
      inYear == day - DayFromYear(y)
      m == CHOOSE k \in 0..11 :
             /\ DaysBeforeMonth(k, IsLeap(y)) <= inYear
             /\ (k = 11 \/ DaysBeforeMonth(k + 1, IsLeap(y)) > inYear)
  IN  <<y, m + 1, inYear - DaysBeforeMonth(m, IsLeap(y)) + 1,
        sec \div 3600, (sec % 3600) \div 60, sec % 60>>

\* a.localeCompare(b) < 0 for two such texts
Before(a, b) ==
  \E i \in 1..6 : a[i] < b[i] /\ \A j \in 1..(i - 1) : a[j] = b[j]

\* a text that may be null
NullText == [null |-> TRUE, iso |-> <<>>]
Text(iso) == [null |-> FALSE, iso |-> iso]

\* parseDateInput: MM/DD/YYYY or YYYY-MM-DD as the ISO text of its midnight,
\* an end bound one day later; null for anything else
parseDateInput(text, isEndExclusive) ==
  LET s == Trim(text)
      plus == IF isEndExclusive THEN 1 ELSE 0
  IN  IF Len(s) # 10 THEN NullText
      ELSE IF /\ AllDigits(SubSeq(s, 1, 2)) /\ s[3] = "/" /\ AllDigits(SubSeq(s, 4, 5))
              /\ s[6] = "/" /\ AllDigits(SubSeq(s, 7, 10))
        THEN Text(ToISOString(DateUTC(NumberOf(SubSeq(s, 7, 10)),
                                      NumberOf(SubSeq(s, 1, 2)) - 1,
                                      NumberOf(SubSeq(s, 4, 5)) + plus, 0, 0, 0)))
      ELSE IF /\ AllDigits(SubSeq(s, 1, 4)) /\ s[5] = "-" /\ AllDigits(SubSeq(s, 6, 7))
              /\ s[8] = "-" /\ AllDigits(SubSeq(s, 9, 10))
        THEN Text(ToISOString(DateUTC(NumberOf(SubSeq(s, 1, 4)),
                                      NumberOf(SubSeq(s, 6, 7)) - 1,
                                      NumberOf(SubSeq(s, 9, 10)) + plus, 0, 0, 0)))
      ELSE NullText

\* Date.parse of an ISO text
DateParse(iso) == MakeDate(iso[1], iso[2] - 1, iso[3], iso[4], iso[5], iso[6])

\* iso ? Date.parse(iso) : null
MsOf(text) == IF text.null THEN NullTime ELSE Time(DateParse(text.iso))

\* \w of a regular expression
IsWordChar(c) ==
  IsDigit(c) \/ c = "_" \/ (\E i \in 1..Len(Upper) : Upper[i] = c \/ Lower[i] = c)

\* NAME_TIME_REGEX: YYYY-MM-DD or YYYY/MM/DD, one of " _T", HH.MM.SS or
\* HH:MM:SS, and a word boundary
MatchesNameTime(name) ==
  /\ Len(name) >= 19
  /\ AllDigits(SubSeq(name, 1, 4)) /\ name[5] \in {"-", "/"}
  /\ AllDigits(SubSeq(name, 6, 7)) /\ name[8] \in {"-", "/"}
  /\ AllDigits(SubSeq(name, 9, 10)) /\ name[11] \in {" ", "_", "T"}
  /\ AllDigits(SubSeq(name, 12, 13)) /\ name[14] \in {".", ":"}
  /\ AllDigits(SubSeq(name, 15, 16)) /\ name[17] \in {".", ":"}
  /\ AllDigits(SubSeq(name, 18, 19))
  /\ (Len(name) = 19 \/ ~IsWordChar(name[20]))

\* parseNameTimestampMs
parseNameTimestampMs(name) ==
  IF ~MatchesNameTime(name) THEN NullTime
  ELSE Time(DateUTC(NumberOf(SubSeq(name, 1, 4)), NumberOf(SubSeq(name, 6, 7)) - 1,
                    NumberOf(SubSeq(name, 9, 10)), NumberOf(SubSeq(name, 12, 13)),
                    NumberOf(SubSeq(name, 15, 16)), NumberOf(SubSeq(name, 18, 19))))

----------------------------------------------------------------------------
(* Numbers.  A number is an integer or NaN. *)

NaN == [nan |-> TRUE, n |-> 0]
Num(n) == [nan |-> FALSE, n |-> n]

\* Number(text) for a text of a query string: blank is 0, an optional sign
\* and digits an integer, anything else NaN
NumberParam(text) ==
  LET s == Trim(text)
      signed == Len(s) > 0 /\ s[1] \in {"-", "+"}
      digits == IF signed THEN Tail(s) ELSE s
  IN  IF Len(s) = 0 THEN Num(0)
      ELSE IF Len(digits) = 0 \/ ~AllDigits(digits) THEN NaN
      ELSE Num(IF s[1] = "-" THEN -NumberOf(digits) ELSE NumberOf(digits))

LimitCeiling == 50
DefaultLimit == 10

\* Math.min(Number(p.limit || 10), 50): an absent or empty limit is 10
LimitOf(param) ==
  LET asked == IF Len(param) = 0 THEN Num(DefaultLimit) ELSE NumberParam(param)
  IN  IF asked.nan THEN NaN
      ELSE Num(IF asked.n < LimitCeiling THEN asked.n ELSE LimitCeiling)

\* ReachedLimit comparing with > in place of >=
ReachedLimitPast(results, limit) == ~limit.nan /\ Len(results) > limit.n

\* results.length >= limit: no comparison with NaN holds
ReachedLimit(results, limit) == ~limit.nan /\ Len(results) >= limit.n

\* results.slice(0, limit): NaN counts as 0, a negative end counts from the
\* end of the array
SliceTo(results, limit) ==
  LET end == IF limit.nan THEN 0
             ELSE IF limit.n < 0 THEN (IF Len(results) + limit.n > 0
                                         THEN Len(results) + limit.n ELSE 0)
             ELSE IF limit.n > Len(results) THEN Len(results)
             ELSE limit.n
  IN  SubSeq(results, 1, end)

\* the results left in the order they were pushed
SortSkipped(results) == results

\* Array.prototype.sort, which is stable; first[j][k] tells whether the
\* comparison puts seq[j] before seq[k].  An element comes behind those put
\* before it and behind the earlier ones the comparison does not tell from it.
StableSort(seq, first) ==
  LET n == Len(seq)
      rank == [k \in 1..n |->
                Cardinality({j \in 1..n : first[j][k] \/ (~first[k][j] /\ j < k)}) + 1]
  IN  [r \in 1..n |-> seq[CHOOSE k \in 1..n : rank[k] = r]]

\* results.sort((a, b) => b.modified.localeCompare(a.modified)): the later
\* modified first
SortByModifiedDesc(results) ==
  StableSort(results,
             [j \in 1..Len(results) |-> [k \in 1..Len(results) |->
                Before(results[k].modified, results[j].modified)]])

PreviewLength == 500

\* makePreview: runs of blanks become one, the ends are trimmed, a text
\* longer than maxLen is cut to maxLen - 1 characters and an ellipsis
makePreview(text, maxLen) ==
  LET RECURSIVE Collapse(_)
      Collapse(i) ==
        IF i > Len(text) THEN <<>>
        ELSE IF text[i] = " " /\ i > 1 /\ text[i - 1] = " " THEN Collapse(i + 1)
        ELSE <<text[i]>> \o Collapse(i + 1)
      t == Trim(Collapse(1))
  IN  IF Len(t) > maxLen THEN Append(SubSeq(t, 1, maxLen - 1), "...") ELSE t

----------------------------------------------------------------------------
(* The document source: a folder tree on the local disk or on Google Drive. *)
(* nodes[i].parent is the folder holding entry i, 0 for the root folder; a   *)
(* folder lists its entries in the order of their numbers.                   *)

FolderMime == "folder"      \* application/vnd.google-apps.folder, a directory
DocumentMime == "document"  \* application/vnd.google-apps.document
TextMime == "text"          \* any other file

File(name, parent, mtime, body) ==
  [name |-> name, mime |-> TextMime, parent |-> parent, mtime |-> mtime, body |-> body]

Document(name, parent, mtime, body) ==
  [name |-> name, mime |-> DocumentMime, parent |-> parent, mtime |-> mtime, body |-> body]

Folder(name, parent) ==
  [name |-> name, mime |-> FolderMime, parent |-> parent, mtime |-> 0, body |-> <<>>]

\* TRANSCRIPTS_FOLDER or GDRIVE_FOLDER_ID: the backend in use and which of
\* the folders below it points to
Source(kind, backend) == [kind |-> kind, backend |-> backend]

\* fs.readdir(folder): the entries of a folder
Children(nodes, folder) ==
  LET Inside(i) == nodes[i].parent = folder
  IN  SelectSeq([i \in 1..Len(nodes) |-> i], Inside)

\* gdriveListFiles, all pages: the entries of a folder, orderBy modifiedTime desc
gdriveListFiles(nodes, folder) ==
  LET listed == Children(nodes, folder)
  IN  StableSort(listed,
                 [j \in 1..Len(listed) |-> [k \in 1..Len(listed) |->
                    nodes[listed[j]].mtime > nodes[listed[k]].mtime]])

DepthLimit == 3

\* gdriveListAllFiles: the files of a folder and of its sub-folders, none
\* below the depth limit
RECURSIVE gdriveListAllFiles(_, _, _)
gdriveListAllFiles(nodes, folder, depth) ==
  LET files == gdriveListFiles(nodes, folder)
      \* what the loop collects from files[lo] to files[hi]
      RECURSIVE Walk(_, _)
      Walk(lo, hi) ==
        IF lo > hi THEN <<>>
        ELSE IF lo < hi
          THEN Walk(lo, (lo + hi) \div 2) \o Walk((lo + hi) \div 2 + 1, hi)
        ELSE IF nodes[files[lo]].mime = FolderMime
          THEN gdriveListAllFiles(nodes, files[lo], depth + 1)
        ELSE <<files[lo]>>
  IN  IF depth > DepthLimit THEN <<>> ELSE Walk(1, Len(files))

\* the filter of findTranscriptsGDrive: a transcript extension or a document
IsTranscriptFile(f) == hasAllowedTranscriptExt(f.name) \/ f.mime = DocumentMime

----------------------------------------------------------------------------
(* The folders and the queries the search is run on. *)

FlatSize == 52
CrowdSize == 202

D2(n) == <<Digits[((n \div 10) % 10) + 1], Digits[(n % 10) + 1]>>
D4(n) == D2(n \div 100) \o D2(n)

\* "YYYY-MM-DD HH.MM.SS", the way the recorder names a transcript
Stamp(y, mo, d, hh, mm, ss) ==
  D4(y) \o <<"-">> \o D2(mo) \o <<"-">> \o D2(d) \o <<" ">>
        \o D2(hh) \o <<".">> \o D2(mm) \o <<".">> \o D2(ss)

\* "YYYY-MM-DDTHH:MM:SS"
StampT(y, mo, d, hh, mm, ss) ==
  D4(y) \o <<"-">> \o D2(mo) \o <<"-">> \o D2(d) \o <<"T">>
        \o D2(hh) \o <<":">> \o D2(mm) \o <<":">> \o D2(ss)

\* "YYYY-MM-DD" and "MM/DD/YYYY"
DateText(y, mo, d) == D4(y) \o <<"-">> \o D2(mo) \o <<"-">> \o D2(d)
UsDateText(mo, d, y) == D2(mo) \o <<"/">> \o D2(d) \o <<"/">> \o D4(y)

\* the instant of a calendar date and time of day
At(y, mo, d, hh, mm, ss) == DateUTC(y, mo - 1, d, hh, mm, ss)

Txt == <<".", "t", "x", "t">>

\* a folder tree five levels deep: entries 1 to 5 in the root, 6 and 7 in
\* folder 3, folder 8 in 7, entries 9 and 10 in 8, file 11 in folder 10
TreeNodes ==
  << File(Stamp(2024, 1, 31, 23, 59, 59) \o <<" ", "A", "B">> \o Txt, 0,
          At(2024, 2, 5, 9, 0, 0), <<"x">>),
     File(Stamp(2024, 2, 1, 0, 0, 0) \o <<" ", "x">> \o Txt, 0,
          At(2024, 2, 6, 9, 0, 0), <<"x", " ", "A", "b", " ", " ", "x">>),
     Folder(<<"s">>, 0),
     File(<<"t", "x", ".", "S", "R", "T">>, 0, At(2024, 1, 15, 12, 0, 0), <<"b", "a">>),
     Document(<<"b", "x">>, 0, At(2024, 1, 20, 8, 0, 0), <<"A", "B">>),
     File(StampT(2024, 1, 31, 0, 0, 0) \o <<".", "v", "t", "t">>, 3,
          At(2024, 3, 1, 0, 0, 0), <<"a", "b">>),
     Folder(<<"t">>, 3),
     Folder(<<"v">>, 7),
     File(<<"a", "b">> \o Txt, 8, At(2024, 1, 10, 0, 0, 0), <<"x">>),
     Folder(<<"r">>, 8),
     File(<<"a", "b", "b">> \o Txt, 10, At(2024, 1, 11, 0, 0, 0), <<"a", "b">>) >>

\* transcripts recorded around 1970-01-01T00:00:00Z
EpochNodes ==
  << File(Stamp(1969, 12, 31, 12, 0, 0) \o <<" ", "x">> \o Txt, 0,
          At(2024, 2, 4, 9, 0, 0), <<"x">>),
     File(Stamp(1970, 1, 1, 0, 0, 0) \o <<" ", "a">> \o Txt, 0,
          At(2024, 2, 5, 9, 0, 0), <<"x">>),
     File(Stamp(1970, 1, 2, 10, 0, 0) \o <<" ", "b">> \o Txt, 0,
          At(2024, 2, 6, 9, 0, 0), <<"x">>) >>

\* one folder of more files than the ceiling of the limit, the oldest first
FlatNodes ==
  [i \in 1..FlatSize |-> File(D4(i) \o Txt, 0, At(2024, 1, 1, 0, 0, 0) + 60 * i, <<"x">>)]

\* one folder of more files than the content checks allowed, the newest
\* first; the last file but one holds the text searched for
CrowdNodes ==
  [i \in 1..CrowdSize |->
     File(D4(i) \o Txt, 0, At(2024, 1, 1, 0, 0, 0) - 60 * i,
          IF i = CrowdSize - 1 THEN <<"a", "b">> ELSE <<"x">>)]

Backends == {"local", "gdrive"}

Sources ==
  {Source(k, b) : k \in {"tree", "epoch", "flat", "crowd"}, b \in Backends}
    \cup {Source("missing", "local")}

\* fs.pathExists(transcriptsFolder)
ExistsOf(src) == src.kind # "missing"

\* the entries below the folder
NodesOf(src) ==
  IF src.kind = "tree" THEN TreeNodes
  ELSE IF src.kind = "epoch" THEN EpochNodes
  ELSE IF src.kind = "flat" THEN FlatNodes
  ELSE IF src.kind = "crowd" THEN CrowdNodes
  ELSE <<>>

\* req.query of a findtranscripts request; an absent parameter is empty
Query(from, to, keywords, limit) ==
  [from |-> from, to |-> to, keywords |-> keywords, limit |-> limit]

NoQuery == Query(<<>>, <<>>, <<>>, <<>>)

\* the queries sent to a source
Queries(src) ==
  IF src.kind = "tree" THEN
    { Query(f, t, k, l) :
        f \in {<<>>, DateText(2024, 1, 31)},
        t \in {<<>>, DateText(2024, 1, 31), UsDateText(1, 31, 2024)},
        k \in {<<>>, <<"a", "B">>, <<" ", "x", "x", ",", ",", "B", "A", " ">>},
        l \in {<<>>, <<"0">>, <<"-", "1">>, <<"1">>, <<"2">>, <<"a">>} }
  ELSE IF src.kind = "epoch" THEN
    { Query(<<>>, t, <<>>, <<>>) :
        t \in {DateText(1969, 12, 31), DateText(1970, 1, 1), DateText(1970, 1, 2)} }
  ELSE IF src.kind = "flat" THEN
    { Query(<<>>, <<>>, <<>>, l) : l \in {<<>>, <<"5", "0">>, <<"6", "0">>} }
  ELSE IF src.kind = "crowd" THEN
    { Query(<<>>, <<>>, <<"a", "b">>, <<>>) }
  ELSE {NoQuery}

----------------------------------------------------------------------------
(* action=findtranscripts.  One request is followed from its arrival to its *)
(* result: a search shares no state with any other request.  The locals of   *)
(* findTranscriptsLocal / findTranscriptsGDrive are the fields of find.      *)

MAX_CONTENT_CHECKS == 200

\* an element of results
Result(id, name, mimeType, modified, preview) ==
  [id |-> id, name |-> name, mimeType |-> mimeType, modified |-> modified,
   preview |-> preview]

\* what one pass of the loop did with a file: the decisions it took
Evaluation(node, nameMs, early, late, nameHit, budget, attempt, readOk, bodyHit, added) ==
  [node |-> node, nameMs |-> nameMs, early |-> early, late |-> late,
   nameHit |-> nameHit, budget |-> budget, attempt |-> attempt, readOk |-> readOk,
   bodyHit |-> bodyHit, added |-> added]

NoEvaluation == Evaluation(0, 0, FALSE, FALSE, FALSE, FALSE, FALSE, FALSE, FALSE, FALSE)

\* a call of scanFolder suspended in its loop
Frame(folder, items, pos, depth) ==
  [folder |-> folder, items |-> items, pos |-> pos, depth |-> depth]

\* the locals of a request; reads counts the calls of readFile / gdriveReadFile
\* and last tells what the latest pass of the loop did
Locals(stage, p, stack, files, pos) ==
  [stage |-> stage, p |-> p,
   limit |-> LimitOf(p.limit),
   fromMs |-> MsOf(parseDateInput(p.from, FALSE)),
   toMs |-> MsOf(parseDateInput(p.to, TRUE)),
   kws |-> KeywordsOf(p.keywords),
   stack |-> stack, files |-> files, pos |-> pos,
   results |-> <<>>, checks |-> 0, reads |-> 0, last |-> NoEvaluation]

\* no request has arrived: there are no locals
Idle == [stage |-> "idle"]

\* the request is answered and its locals are gone
Done == [stage |-> "done"]

\* the value findTranscripts returns, with the query it answers
Found(p, ok, error, results) ==
  [p |-> p, ok |-> ok, error |-> error, results |-> results]

NoFound == Found(NoQuery, FALSE, "", <<>>)

\* Lines 549-575 and 470-496: the date filter, the keyword test on the name,
\* the content check and the push, for file i whose timestamp is nameMs
Examine(fd, i, f, nameMs, modified, readOk) ==
  LET early == Truthy(fd.fromMs) /\ nameMs < fd.fromMs.t
      late == ~early /\ Truthy(fd.toMs) /\ nameMs >= fd.toMs.t
      nameHit == IF Len(fd.kws) > 0 THEN anyKeywordHit(f.name, fd.kws) ELSE TRUE
      budget == fd.checks < MAX_CONTENT_CHECKS
      attempt == ~nameHit /\ Len(fd.kws) > 0 /\ budget
      bodyHit == attempt /\ readOk /\ anyKeywordHit(f.body, fd.kws)
      hit == nameHit \/ bodyHit
      preview == IF bodyHit THEN makePreview(f.body, PreviewLength) ELSE <<>>
  IN  IF early \/ late
        THEN [fd EXCEPT !.last = Evaluation(i, nameMs, early, late, FALSE, budget,
                                            FALSE, FALSE, FALSE, FALSE)]
        ELSE [fd EXCEPT
                !.results = IF hit THEN Append(@, Result(i, f.name, f.mime, modified, preview))
                                   ELSE @,
                !.checks = IF attempt /\ readOk THEN @ + 1 ELSE @,
                !.reads = IF attempt THEN @ + 1 ELSE @,
                !.last = Evaluation(i, nameMs, FALSE, FALSE, nameHit, budget, attempt,
                                    attempt /\ readOk, bodyHit, hit)]

\* Lines 581-582 and 499-500: sort, truncate, return
Finished(fd) ==
  Found(fd.p, TRUE, "", SliceTo(SortByModifiedDesc(fd.results), fd.limit))

\* Enter with the depth test off by one
EnterOneDeeper(fd, stack, folder, depth) ==
  IF depth > DepthLimit + 1 \/ ReachedLimit(fd.results, fd.limit) THEN stack
  ELSE Append(stack, Frame(folder, Children(NodesOf(source), folder), 1, depth))

\* Lines 529-532: scanFolder(folder, depth) is called; it returns at once
\* below the depth limit or with the limit reached, else it lists the folder
Enter(fd, stack, folder, depth) ==
  IF depth > DepthLimit \/ ReachedLimit(fd.results, fd.limit) THEN stack
  ELSE Append(stack, Frame(folder, Children(NodesOf(source), folder), 1, depth))

\* the loop of the innermost call moves to its next item
Advance(stack) == [stack EXCEPT ![Len(stack)].pos = @ + 1]

\* the innermost call of scanFolder has an item left and room in the results
AtItem(fd) ==
  /\ fd.stage = "scan" /\ Len(fd.stack) > 0
  /\ fd.stack[Len(fd.stack)].pos <= Len(fd.stack[Len(fd.stack)].items)
  /\ ~ReachedLimit(fd.results, fd.limit)

\* the entry the innermost call is at
ItemOf(fd) == fd.stack[Len(fd.stack)].items[fd.stack[Len(fd.stack)].pos]

\* Lines 507-528, 579: the query is read, the folder exists, scanFolder is
\* called on it
FindLocalStart(p) ==
  /\ source.backend = "local" /\ ExistsOf(source) /\ find.stage = "idle"
  /\ LET fd == Locals("scan", p, <<>>, <<>>, 0)
     IN  find' = [fd EXCEPT !.stack = Enter(fd, <<>>, 0, 0)]
  /\ found' = NoFound
  /\ UNCHANGED <<conversations, transcriptConversations, heap, reqs, nreq, res,
                 lastEvent, source>>

\* Lines 522-524: the folder does not exist
FindLocalMissing(p) ==
  /\ source.backend = "local" /\ ~ExistsOf(source) /\ find.stage = "idle"
  /\ found' = Found(p, FALSE, "Transcripts folder not found", <<>>)
  /\ find' = Done
  /\ UNCHANGED <<conversations, transcriptConversations, heap, reqs, nreq, res,
                 lastEvent, source>>

\* Lines 535-543: the item is a directory; scanFolder is called on it, and
\* the loop goes on behind it when that call returns
ScanFolder ==
  /\ source.backend = "local" /\ AtItem(find)
  /\ NodesOf(source)[ItemOf(find)].mime = FolderMime
  /\ find' = [find EXCEPT !.stack = Enter(find, Advance(find.stack), ItemOf(find),
                                          find.stack[Len(find.stack)].depth + 1)]
  /\ UNCHANGED <<conversations, transcriptConversations, heap, reqs, nreq, res,
                 lastEvent, source, found>>

\* Lines 535-576: the item is a file; one with a transcript extension is
\* examined, its timestamp the one in its name or else its mtime.  readOk
\* tells whether readFile, if called, succeeds.
ScanFile(readOk) ==
  /\ source.backend = "local" /\ AtItem(find)
  /\ NodesOf(source)[ItemOf(find)].mime # FolderMime
  /\ LET i == ItemOf(find)
         f == NodesOf(source)[i]
         nameMs == OrElse(parseNameTimestampMs(f.name), Time(f.mtime)).t
         fd == [find EXCEPT !.stack = Advance(@)]
     IN  find' = IF ~hasAllowedTranscriptExt(f.name) THEN fd
                 ELSE Examine(fd, i, [f EXCEPT !.mime = TextMime], nameMs,
                              ToISOString(nameMs), readOk)
  /\ UNCHANGED <<conversations, transcriptConversations, heap, reqs, nreq, res,
                 lastEvent, source, found>>

\* Lines 534-536, 577: the loop of the innermost call ends, by the break or
\* with its last item, and the call returns
ScanReturn ==
  /\ source.backend = "local" /\ find.stage = "scan" /\ Len(find.stack) > 0
  /\ ~AtItem(find)
  /\ find' = [find EXCEPT !.stack = SubSeq(@, 1, Len(@) - 1)]
  /\ UNCHANGED <<conversations, transcriptConversations, heap, reqs, nreq, res,
                 lastEvent, source, found>>

\* fs.stat throws (line 537); the catch of lines 795-797 answers
ScanFail ==
  /\ source.backend = "local" /\ AtItem(find)
  /\ found' = Found(find.p, FALSE, "Error", <<>>)
  /\ find' = Done
  /\ UNCHANGED <<conversations, transcriptConversations, heap, reqs, nreq, res,
                 lastEvent, source>>

\* Lines 579-582: the outermost call has returned
FindLocalFinish ==
  /\ source.backend = "local" /\ find.stage = "scan" /\ Len(find.stack) = 0
  /\ found' = Finished(find)
  /\ find' = Done
  /\ UNCHANGED <<conversations, transcriptConversations, heap, reqs, nreq, res,
                 lastEvent, source>>

\* Lines 440-463: the query is read, the tree is listed and the transcripts
\* are picked
FindGDriveStart(p) ==
  /\ source.backend = "gdrive" /\ find.stage = "idle"
  /\ LET IsTranscript(i) == IsTranscriptFile(NodesOf(source)[i])
         transcriptFiles == SelectSeq(gdriveListAllFiles(NodesOf(source), 0, 0), IsTranscript)
     IN  find' = Locals("scan", p, <<>>, transcriptFiles, 1)
  /\ found' = NoFound
  /\ UNCHANGED <<conversations, transcriptConversations, heap, reqs, nreq, res,
                 lastEvent, source>>

\* Lines 501-504: listing the tree throws
FindGDriveFail(p) ==
  /\ source.backend = "gdrive" /\ find.stage = "idle"
  /\ found' = Found(p, FALSE, "Google Drive error", <<>>)
  /\ find' = Done
  /\ UNCHANGED <<conversations, transcriptConversations, heap, reqs, nreq, res,
                 lastEvent, source>>

\* the loop of findTranscriptsGDrive has a file left and room in the results
AtFile(fd) ==
  fd.stage = "scan" /\ fd.pos <= Len(fd.files) /\ ~ReachedLimit(fd.results, fd.limit)

\* Lines 465-497: one pass of the loop; the timestamp of a file is the one in
\* its name or else its modifiedTime, which Drive returns for every file and
\* which becomes the result's modified.  readOk tells whether gdriveReadFile,
\* if called, succeeds.
GScanFile(readOk) ==
  /\ source.backend = "gdrive" /\ AtFile(find)
  /\ LET i == find.files[find.pos]
         f == NodesOf(source)[i]
         nameMs == OrElse(parseNameTimestampMs(f.name), Time(f.mtime)).t
     IN  find' = Examine([find EXCEPT !.pos = @ + 1], i, f, nameMs,
                         ToISOString(f.mtime), readOk)
  /\ UNCHANGED <<conversations, transcriptConversations, heap, reqs, nreq, res,
                 lastEvent, source, found>>

\* Lines 466, 499-500: the loop ends, by the break or with the last file
FindGDriveFinish ==
  /\ source.backend = "gdrive" /\ find.stage = "scan" /\ ~AtFile(find)
  /\ found' = Finished(find)
  /\ find' = Done
  /\ UNCHANGED <<conversations, transcriptConversations, heap, reqs, nreq, res,
                 lastEvent, source>>

----------------------------------------------------------------------------
(* The server under concurrent clients: at most MaxInFlight handlers are     *)
(* suspended at a time, and MaxRequests requests are received in all.        *)

AskQuestions == {"q1"}

\* no request has been received
InitConversations ==
  /\ conversations = <<>>
  /\ transcriptConversations = <<>>
  /\ heap = <<>>
  /\ reqs = {}
  /\ nreq = 0
  /\ res = NoResponse
  /\ lastEvent = [k \in Sessions |-> NoEvent]

Init ==
  /\ InitConversations
  /\ source = Source("empty", "local")
  /\ find = Idle
  /\ found = NoFound

Arrives == nreq < MaxRequests
Room == Cardinality(reqs) < MaxInFlight

Next ==
  \/ \E sp \in Clients, t \in TypeParams, q \in AskQuestions :
       Arrives /\ Room /\ AskStart(nreq + 1, sp, t, q)
  \/ \E r \in reqs : AskFetchFail(r)
  \/ \E r \in reqs : AskPrompt(r)
  \/ \E r \in reqs : AskGeminiFail(r)
  \/ \E r \in reqs : AskFinish(r)
  \/ \E sp \in Clients : Arrives /\ ClearConversation(nreq + 1, sp)
  \/ \E sp \in Clients : Arrives /\ ClearTranscriptConversation(nreq + 1, sp)
  \/ \E id \in IdParams, q \in QuestionParams, sp \in Clients :
       Arrives /\ AskTranscriptInvalid(nreq + 1, id, q, sp)
  \/ \E id \in IdParams, q \in QuestionParams, sp \in Clients :
       Arrives /\ Room /\ AskTranscriptStart(nreq + 1, id, q, sp)
  \/ \E r \in reqs : AskTranscriptReadFail(r)
  \/ \E r \in reqs : AskTranscriptEmpty(r)
  \/ \E r \in reqs : AskTranscriptPrompt(r)
  \/ \E r \in reqs : AskTranscriptGeminiFail(r)
  \/ \E r \in reqs : AskTranscriptFinish(r)

Spec == Init /\ [][Next]_vars

----------------------------------------------------------------------------
(* One client in a long conversation: it sends its next request when the     *)
(* last one is answered, for as long as it likes (the requests are not       *)
(* numbered), and keeps to the store it addressed first.                     *)

Unused(store) ==
  /\ \A k \in Sessions : k[1] = store => lastEvent[k] = NoEvent
  /\ \A r \in reqs : r.store # store

Turn(store) == reqs = {} /\ Unused(IF store = General THEN Transcript ELSE General)

NextLong ==
  \/ \E sp \in Clients, t \in TypeParams, q \in AskQuestions :
       Turn(General) /\ AskStart(nreq, sp, t, q)
  \/ \E r \in reqs : AskFetchFail(r)
  \/ \E r \in reqs : AskPrompt(r)
  \/ \E r \in reqs : AskGeminiFail(r)
  \/ \E r \in reqs : AskFinish(r)
  \/ \E sp \in Clients : Turn(General) /\ ClearConversation(nreq, sp)
  \/ \E sp \in Clients : Turn(Transcript) /\ ClearTranscriptConversation(nreq, sp)
  \/ \E id \in IdParams, q \in QuestionParams, sp \in Clients :
       Turn(Transcript) /\ AskTranscriptInvalid(nreq, id, q, sp)
  \/ \E id \in IdParams, q \in QuestionParams, sp \in Clients :
       Turn(Transcript) /\ AskTranscriptStart(nreq, id, q, sp)
  \/ \E r \in reqs : AskTranscriptReadFail(r)
  \/ \E r \in reqs : AskTranscriptEmpty(r)
  \/ \E r \in reqs : AskTranscriptPrompt(r)
  \/ \E r \in reqs : AskTranscriptGeminiFail(r)
  \/ \E r \in reqs : AskTranscriptFinish(r)

SpecLong == Init /\ [][NextLong]_vars

----------------------------------------------------------------------------
(* Two clients, each with a session id of its own that it uses on both       *)
(* stores.  A client sends its next request when its last one is answered;   *)
(* the requests of the two interleave.                                       *)

PairClients == {"s1", "s2"}

PairTypes == {"", "Note"}

PairIds == {"", "t1"}

PairSessions ==
  {<<General, SessionOf(sp, "default")>> : sp \in PairClients} \cup
  {<<Transcript, SessionOf(sp, "tr_default")>> : sp \in PairClients}

\* client sp has no request in flight
Waits(sp) ==
  \A r \in reqs : r.sid \notin {SessionOf(sp, "default"), SessionOf(sp, "tr_default")}

InitPair ==
  /\ conversations = <<>>
  /\ transcriptConversations = <<>>
  /\ heap = <<>>
  /\ reqs = {}
  /\ nreq = 0
  /\ res = NoResponse
  /\ lastEvent = [k \in PairSessions |-> NoEvent]
  /\ source = Source("empty", "local")
  /\ find = Idle
  /\ found = NoFound

NextPair ==
  \/ \E sp \in PairClients, t \in PairTypes, q \in AskQuestions :
       Arrives /\ Waits(sp) /\ AskStart(nreq + 1, sp, t, q)
  \/ \E r \in reqs : AskFetchFail(r)
  \/ \E r \in reqs : AskPrompt(r)
  \/ \E r \in reqs : AskGeminiFail(r)
  \/ \E r \in reqs : AskFinish(r)
  \/ \E sp \in PairClients : Arrives /\ Waits(sp) /\ ClearConversation(nreq + 1, sp)
  \/ \E sp \in PairClients : Arrives /\ Waits(sp) /\ ClearTranscriptConversation(nreq + 1, sp)
  \/ \E id \in PairIds, q \in QuestionParams, sp \in PairClients :
       Arrives /\ Waits(sp) /\ AskTranscriptInvalid(nreq + 1, id, q, sp)
  \/ \E id \in PairIds, q \in QuestionParams, sp \in PairClients :
       Arrives /\ Waits(sp) /\ AskTranscriptStart(nreq + 1, id, q, sp)
  \/ \E r \in reqs : AskTranscriptReadFail(r)
  \/ \E r \in reqs : AskTranscriptEmpty(r)
  \/ \E r \in reqs : AskTranscriptPrompt(r)
  \/ \E r \in reqs : AskTranscriptGeminiFail(r)
  \/ \E r \in reqs : AskTranscriptFinish(r)

SpecPair == InitPair /\ [][NextPair]_vars

----------------------------------------------------------------------------
(* The transcript search on each of the sources *)

InitFind ==
  /\ InitConversations
  /\ source \in Sources
  /\ find = Idle
  /\ found = NoFound

NextFind ==
  \/ \E p \in Queries(source) : FindLocalStart(p)
  \/ \E p \in Queries(source) : FindLocalMissing(p)
  \/ ScanFolder
  \/ \E readOk \in BOOLEAN : ScanFile(readOk)
  \/ ScanReturn
  \/ ScanFail
  \/ FindLocalFinish
  \/ \E p \in Queries(source) : FindGDriveStart(p)
  \/ \E p \in Queries(source) : FindGDriveFail(p)
  \/ \E readOk \in BOOLEAN : GScanFile(readOk)
  \/ FindGDriveFinish

SpecFind == InitFind /\ [][NextFind]_vars

----------------------------------------------------------------------------
(* Steps of a suspended request r, as seen in a pair of states *)

StillIn(rq, r) == {r2 \in rq : r2.n = r.n /\ r2.store = r.store}

\* r's handler builds its prompt and calls gemini
Prompted(r) ==
  r.stage # "gemini" /\ \E r2 \in StillIn(reqs', r) : r2.stage = "gemini"

\* r's gemini call returns and r is answered with ok: true
Answered(r) ==
  r.stage = "gemini" /\ StillIn(reqs', r) = {} /\ res'.ok

\* r's gemini call throws and r is answered with ok: false
Refused(r) ==
  r.stage = "gemini" /\ StillIn(reqs', r) = {} /\ ~res'.ok

\* the clear request of a session is handled
Cleared(store, sessionId) ==
  /\ nreq' # nreq /\ res'.n = nreq' /\ res'.sid = sessionId
  /\ res'.action = IF store = General THEN "clearconversation"
                                      ELSE "cleartranscriptconversation"

\* get(sessionId) on the stores as they are after the step
GetAfter(store, sessionId) ==
  LET got == IF store = General
               THEN getConversation(conversations', heap', sessionId)
               ELSE getTranscriptConversation(transcriptConversations', heap', sessionId)
  IN  got.heap[got.ref]

\* the user / model pair of request n is in history, in this order
HasPair(history, prompt, n) ==
  \E i \in 1..(Len(history) - 1) :
    history[i] = UserTurn(prompt) /\ history[i + 1] = ModelTurn(n)

----------------------------------------------------------------------------
(* Claims *)

\* C1: in both stores, whatever requests were served, the history of every
\* stored session has an even length of at most 2 * 20 = 40 turns.
C1_HistoryEvenAndCapped ==
  \A k \in Sessions :
    LET history == View(k[1], k[2]).history
    IN  Len(history) % 2 = 0 /\ Len(history) <= 2 * MAX_CONVERSATION_HISTORY

\* C1 witness: a stored history of 40 turns that lost its first pair to the trim
C1_Witness ==
  \E k \in Sessions :
    LET history == View(k[1], k[2]).history
    IN  /\ Len(history) = 2 * MAX_CONVERSATION_HISTORY
        /\ history[1].text.template = "followup"

\* C2: when an ask carries a fingerprint other than the one its conversation
\* holds, the prompt step resets the history: gemini is called with the full
\* prompt and an empty history, and the conversation holds the new fingerprint;
\* when such a request, alone on its session, is answered, the history is exactly
\* its user / model pair, the stored fingerprint is the new one and the
\* response reports isNewConversation: true.
C2_FilterChangeResets ==
  [][\A r \in reqs : r.store = General =>
       /\ (r.stage = "fetch" /\ Prompted(r)
             /\ heap[r.conv].context # FiltersKey(r.params)) =>
            /\ \E r2 \in StillIn(reqs', r) :
                 r2.sent = <<>> /\ r2.needsNewContext /\ r2.prompt.template = "full"
            /\ heap'[r.conv].history = <<>>
            /\ heap'[r.conv].context = FiltersKey(r.params)
       /\ (Answered(r) /\ r.solo /\ r.before.context # FiltersKey(r.params)) =>
            /\ View(General, r.sid)'.history = <<UserTurn(r.prompt), ModelTurn(r.n)>>
            /\ View(General, r.sid)'.context = FiltersKey(r.params)
            /\ res'.isNewConversation
            /\ res'.conversationLength = 1
    ]_vars

\* C2 witness: an ask that arrived at a session with turns stored, ran alone,
\* sent the full prompt and was answered, leaving a history of one pair
C2_Witness ==
  \E sp \in Clients :
    LET e == lastEvent[Key(General, sp)]
    IN  /\ e.kind = "ask" /\ e.ok /\ e.solo /\ e.turns > 0
        /\ e.prompt.template = "full"
        /\ res.n = e.n /\ res.isNewConversation
        /\ Len(View(General, sp).history) = 2

\* C3: in both stores, once a clear of a session is handled the map holds no
\* entry for it, and get on it yields what get yields on a session id never
\* referenced: an empty history and a null context / transcriptId.
C3_ClearThenGetIsFresh ==
  [][\A k \in Sessions : Cleared(k[1], k[2]) =>
       /\ k[2] \notin DOMAIN MapOf(k[1])'
       /\ GetAfter(k[1], k[2]) = GetAfter(k[1], "never referenced")
       /\ GetAfter(k[1], k[2]) = FreshOf(k[1])
    ]_vars

\* C3 witness: a session cleared while it held turns, and gone from the map
C3_Witness ==
  \E k \in Sessions :
    /\ lastEvent[k].kind = "clear" /\ lastEvent[k].turns > 0
    /\ k[2] \notin DOMAIN MapOf(k[1])

\* C4: an ask that follows an answered ask of the same fingerprint on its
\* session, both alone on the session and nothing between them, sends the
\* follow-up template (the question, no items block) with a history that holds
\* the first ask's pair, and is answered with isNewConversation: false.
C4_SecondAskIsFollowUp ==
  [][\A r \in reqs :
       (/\ r.store = General /\ r.solo
        /\ r.prev.kind = "ask" /\ r.prev.ok /\ r.prev.solo
        /\ r.prev.arg = FiltersKey(r.params)) =>
         /\ (r.stage = "fetch" /\ Prompted(r)) =>
              \E r2 \in StillIn(reqs', r) :
                /\ r2.prompt = FollowUpPrompt(r.question)
                /\ r2.prompt.context = <<>>
                /\ ~r2.needsNewContext
                /\ HasPair(r2.sent, r.prev.prompt, r.prev.n)
         /\ Answered(r) => ~res'.isNewConversation
    ]_vars

\* C4 witness: the second of two such asks has been answered
C4_Witness ==
  \E sp \in Clients :
    LET e == lastEvent[Key(General, sp)]
    IN  /\ e.kind = "ask" /\ e.ok /\ e.solo /\ e.turns = 2
        /\ e.prompt.template = "followup"
        /\ res.n = e.n /\ res.action = "ask" /\ ~res.isNewConversation

\* C5: whenever asktranscript sends the follow-up prompt, the history sent with
\* it holds a first-turn prompt that embeds the text of the conversation's
\* current transcript.
C5_FollowUpHistoryHoldsTranscript ==
  \A r \in reqs :
    (r.store = Transcript /\ r.stage = "gemini" /\ r.prompt.template = "followup") =>
      \E i \in 1..Len(r.sent) :
        /\ r.sent[i].role = "user"
        /\ r.sent[i].text.template = "full"
        /\ r.sent[i].text.context = TextOf(heap[r.conv].transcriptId)

\* C6: when the gemini call of an ask or asktranscript that ran alone on its
\* session throws, the response is { ok: false, error } and the session is as
\* it was when the request arrived: same history, same context / transcriptId.
C6_FailureLeavesNoPartialState ==
  [][\A r \in reqs : (r.solo /\ Refused(r)) =>
       /\ ~res'.ok /\ res'.error # ""
       /\ View(r.store, r.sid)' = r.before
    ]_vars

\* r's read of the transcript throws and r is answered
ReadFailed(r) ==
  /\ r.store = Transcript /\ r.stage = "read" /\ StillIn(reqs', r) = {}
  /\ res'.n = r.n /\ res'.error = "Failed to read transcript"

\* C11: an asktranscript whose transcript cannot be read is answered with
\* { ok: false, error: "Failed to read transcript" }; gemini was not called
\* for it, and the session's history and transcriptId are left as they were
\* (as they were when the request arrived, if it ran alone on its session).
C11_UnreadableTranscriptIsReported ==
  [][\A r \in reqs : ReadFailed(r) =>
       /\ ~res'.ok /\ res'.action = "asktranscript"
       /\ r.prompt = NoPrompt /\ r.sent = <<>>
       /\ View(Transcript, r.sid)' = View(Transcript, r.sid)
       /\ r.solo => View(Transcript, r.sid)' = r.before
    ]_vars

\* C11 witness: the read failed for a request on a session that holds the
\* turns of another transcript, and the session still holds them
C11_Witness ==
  \E sp \in Clients :
    LET e == lastEvent[Key(Transcript, sp)]
        now == View(Transcript, sp)
    IN  /\ e.kind = "asktranscript" /\ ~e.ok /\ e.solo /\ e.turns = 2
        /\ res.n = e.n /\ res.error = "Failed to read transcript"
        /\ Len(now.history) = 2 /\ now.transcriptId = "t1"

\* C12: when a request is answered and its two turns make the history longer
\* than 40 entries, the stored history is exactly the last 40 entries of the
\* old history followed by the two turns, in their order (the oldest are
\* dropped from the front); whatever the length, the last two stored entries
\* are the request's user turn and model turn.
C12_TrimKeepsLatestFortyInOrder ==
  [][\A r \in reqs : (Answered(r) /\ r.conv \in DOMAIN heap') =>
       LET appended == heap[r.conv].history \o <<UserTurn(r.prompt), ModelTurn(r.n)>>
           stored == heap'[r.conv].history
           cap == 2 * MAX_CONVERSATION_HISTORY
       IN  /\ Len(appended) > cap =>
                /\ Len(stored) = cap
                /\ \A i \in 1..cap : stored[i] = appended[Len(appended) - cap + i]
           /\ Len(stored) >= 2
           /\ stored[Len(stored) - 1] = UserTurn(r.prompt)
           /\ stored[Len(stored)] = ModelTurn(r.n)
    ]_vars

\* C12 witness: a request that found 40 turns stored was answered; the session
\* holds 40 turns again, the last two are the request's
C12_Witness ==
  \E k \in Sessions :
    LET e == lastEvent[k]
        history == View(k[1], k[2]).history
    IN  /\ e.ok /\ e.turns = 2 * MAX_CONVERSATION_HISTORY /\ res.n = e.n
        /\ Len(history) = 2 * MAX_CONVERSATION_HISTORY
        /\ history[Len(history) - 1] = UserTurn(e.prompt)
        /\ history[Len(history)] = ModelTurn(e.n)

\* the background the full prompt of a session in this state embeds
CurrentContext(store, state) ==
  IF store = General THEN state.context ELSE TextOf(state.transcriptId)

IsFollowUp(turn) == turn.role = "user" /\ turn.text.template = "followup"

IsFullFor(turn, context) ==
  turn.role = "user" /\ turn.text.template = "full" /\ turn.text.context = context

\* history holds a follow-up turn with no full turn for context before it
OrphanFollowUp(history, context) ==
  \E i \in 1..Len(history) :
    IsFollowUp(history[i]) /\ \A j \in 1..(i - 1) : ~IsFullFor(history[j], context)

\* history holds the answers of two requests against the order they started in
OutOfStartOrder(history) ==
  \E i, j \in 1..Len(history) :
    /\ i < j /\ history[i].role = "model" /\ history[j].role = "model"
    /\ history[i].text.answer > history[j].text.answer

\* C13: two requests on one session that overlap at the gemini call can leave
\* the history out of order, as nothing re-checks the conversation when the
\* answer arrives: when the answer of a follow-up request arrives after an
\* overlapping request reset the conversation, the stored history holds the
\* follow-up turn with no full turn of the current fingerprint / transcript
\* before it; and when it arrives after the answer of a request that started
\* later, the pairs are stored against the order the requests started in.
\* The witness shows such an interleaving is reachable.
C13_OverlapCorruptsOrder ==
  [][\A r \in reqs : (Answered(r) /\ r.conv \in DOMAIN heap') =>
       LET old == heap[r.conv]
           new == heap'[r.conv]
           context == CurrentContext(r.store, new)
       IN  /\ (IsFollowUp(UserTurn(r.prompt)) /\ old.history # r.sent
                  /\ ~\E j \in 1..Len(old.history) : IsFullFor(old.history[j], context)) =>
                 OrphanFollowUp(new.history, context)
           /\ (\E i \in 1..Len(old.history) :
                  old.history[i].role = "model" /\ old.history[i].text.answer > r.n) =>
                 OutOfStartOrder(new.history)
    ]_vars

\* C13 witness: all requests are answered and a session's history begins with
\* a follow-up turn, the full turn of the session's fingerprint / transcript
\* coming after it
C13_Witness ==
  \E k \in Sessions :
    LET state == View(k[1], k[2])
        history == state.history
    IN  /\ reqs = {} /\ Len(history) = 4
        /\ IsFollowUp(history[1])
        /\ IsFullFor(history[3], CurrentContext(k[1], state))
        /\ OrphanFollowUp(history, CurrentContext(k[1], state))

\* the entry of sessionId in map: the object stored there, or none
EntryOf(map, h, sessionId) ==
  IF sessionId \in DOMAIN map THEN <<h[map[sessionId]]>> ELSE <<>>

\* the store an action of the API works on
StoreOfAction(action) ==
  IF action \in {"ask", "clearconversation"} THEN General ELSE Transcript

\* the store and session of the request whose handler takes the step: that of
\* the suspended handler that is new, resumed or gone, and that of the
\* response sent
Addressed ==
  {<<r.store, r.sid>> : r \in (reqs \ reqs') \cup (reqs' \ reqs)} \cup
  (IF res' # res THEN {<<StoreOfAction(res'.action), res'.sid>>} ELSE {})

\* C16: a step of a request on session S of one store changes at most the
\* entry of S in that store (the general store for ask and clearconversation,
\* the transcript store for asktranscript and cleartranscriptconversation):
\* every entry of the other store and every entry of another session id is
\* the same after the step as before it.
C16_OtherEntriesUnchanged ==
  [][/\ Cardinality(Addressed) <= 1
     /\ \A r \in reqs' : /\ r.stage = "fetch" => r.store = General
                         /\ r.stage = "read" => r.store = Transcript
     /\ \A k \in PairSessions \ Addressed :
          IF k[1] = General
            THEN EntryOf(conversations', heap', k[2]) = EntryOf(conversations, heap, k[2])
            ELSE EntryOf(transcriptConversations', heap', k[2]) =
                   EntryOf(transcriptConversations, heap, k[2])
    ]_vars

\* C16 witness: an ask on s1 was answered last and added to the history of
\* s1 in the general store, while s2 in the general store and s1 in the
\* transcript store hold the turns of earlier requests
C16_Witness ==
  /\ res.action = "ask" /\ res.ok /\ res.sid = "s1"
  /\ Len(View(General, "s1").history) = 2
  /\ Len(View(General, "s2").history) = 2
  /\ Len(View(Transcript, "s1").history) = 2
  /\ View(General, "s2").history[2] # View(General, "s1").history[2]

\* the object r's handler holds is no longer the entry of its session: the
\* session was cleared after r got it
Detached(r) ==
  r.sid \notin DOMAIN MapOf(r.store) \/ MapOf(r.store)[r.sid] # r.conv

\* C17: when a request whose session was cleared during its gemini call is
\* answered, its turns go to the removed object and not into the store: the
\* map and what get yields on the session are as before the answer, which is
\* the fresh state (empty history, null context / transcriptId) unless a later
\* request has made a new entry; and an ask that arrives after such an answer,
\* finds the session fresh and runs alone sends the full prompt with an empty
\* history.
C17_ClearedInFlightStaysOut ==
  [][\A r \in reqs :
       /\ (Answered(r) /\ Detached(r)) =>
            /\ MapOf(r.store)' = MapOf(r.store)
            /\ View(r.store, r.sid)' = View(r.store, r.sid)
            /\ GetAfter(r.store, r.sid) = View(r.store, r.sid)
            /\ r.sid \notin DOMAIN MapOf(r.store) =>
                 GetAfter(r.store, r.sid) = FreshOf(r.store)
            /\ \A s \in DOMAIN MapOf(r.store)' :
                 ~HasPair(heap'[MapOf(r.store)'[s]].history, r.prompt, r.n)
       /\ (Prompted(r) /\ r.solo /\ r.before = FreshOf(r.store)
              /\ r.prev.kind \in {"ask", "asktranscript"} /\ r.prev.ok) =>
            \E r2 \in StillIn(reqs', r) :
              r2.prompt.template = "full" /\ r2.sent = <<>>
    ]_vars

\* C17 witness: an ask whose session was cleared during its gemini call has
\* been answered, and the next ask on the session, which found it fresh, has
\* sent the full prompt
C17_Witness ==
  \E r \in reqs :
    /\ r.stage = "gemini" /\ r.solo /\ r.before = FreshOf(r.store)
    /\ r.prev.kind \in {"ask", "asktranscript"} /\ r.prev.ok /\ ~r.prev.solo
    /\ r.prev.prompt.template = "full"
    /\ r.prompt.template = "full" /\ r.sent = <<>>
    /\ heap[r.conv].history = <<>>

----------------------------------------------------------------------------
(* Claims on the transcript search *)

\* the limit a query asks for, 10 when it gives none
AskedLimit == IF Len(found.p.limit) = 0 THEN Num(DefaultLimit) ELSE NumberParam(found.p.limit)

\* no result is followed by one modified later
SortedByModifiedDesc(results) ==
  \A i \in 1..(Len(results) - 1) : ~Before(results[i].modified, results[i + 1].modified)

\* C7 as claimed: a successful findtranscripts returns at most min(limit, 50)
\* results (limit defaulting to 10), for any limit that is a number, ordered
\* by modified descending.
C7_AtMostMinLimit50Sorted ==
  (found.ok /\ ~AskedLimit.nan) =>
    /\ Len(found.results) <= AskedLimit.n
    /\ Len(found.results) <= LimitCeiling
    /\ SortedByModifiedDesc(found.results)

\* C7 amended: a successful findtranscripts returns at most
\* max(0, min(limit, 50)) results (limit defaulting to 10), none when the
\* limit is negative or not a number, ordered by modified descending.
C7_AtMostClampedLimitSorted ==
  found.ok =>
    /\ Len(found.results) <= LimitCeiling
    /\ ~AskedLimit.nan /\ AskedLimit.n >= 0 => Len(found.results) <= AskedLimit.n
    /\ AskedLimit.nan \/ AskedLimit.n < 0 => Len(found.results) = 0
    /\ SortedByModifiedDesc(found.results)

\* a search with limit=60 returns 50 results, the one pushed last first
C7_Witness ==
  /\ found.ok /\ found.p.limit = <<"6", "0">>
  /\ Len(found.results) = LimitCeiling
  /\ found.results[1].id > found.results[2].id

\* the letters a and b are the same up to their case
SameLetter(a, b) ==
  a = b \/ \E i \in 1..Len(Upper) : {a, b} = {Upper[i], Lower[i]}

\* term is a case-insensitive substring of text
OccursIn(term, text) ==
  \E i \in 0..(Len(text) - Len(term)) :
    \A j \in 1..Len(term) : SameLetter(text[i + j], term[j])

\* some keyword of the query is a case-insensitive substring of text
SomeKeywordIn(text) == \E k \in 1..Len(find.kws) : OccursIn(find.kws[k], text)

\* the file examined last passed the date filter, in a search with keywords
Examined ==
  /\ find.stage = "scan" /\ find.last.node # 0
  /\ ~find.last.early /\ ~find.last.late
  /\ Len(find.kws) >= 1

\* the file examined last is the latest result
Added ==
  Len(find.results) > 0 /\ find.results[Len(find.results)].id = find.last.node

\* C8: with at least one keyword, a file that passed the date filter is added
\* to the results iff a keyword occurs in its name, or none does, fewer than
\* MAX_CONTENT_CHECKS content checks are counted, its content is read and a
\* keyword occurs in it (case-insensitively; an unreadable file is no match).
C8_AddedIffNameOrContentHit ==
  Examined =>
    LET f == NodesOf(source)[find.last.node]
    IN  Added <=> \/ SomeKeywordIn(f.name)
                  \/ /\ ~SomeKeywordIn(f.name)
                     /\ find.last.budget
                     /\ find.last.readOk
                     /\ SomeKeywordIn(f.body)

\* a file holding a keyword is left out because the budget is used up
C8_Witness ==
  /\ Examined /\ ~Added /\ ~find.last.budget
  /\ SomeKeywordIn(NodesOf(source)[find.last.node].body)

\* C9: the content reads attempted in one request, failed ones included,
\* never exceed MAX_CONTENT_CHECKS.
C9_ReadAttemptsWithinBudget ==
  find.stage = "scan" => find.reads <= MAX_CONTENT_CHECKS

\* the day written at the start of a text, as <<year, month, day>>
DayOf(text) ==
  <<NumberOf(SubSeq(text, 1, 4)), NumberOf(SubSeq(text, 6, 7)), NumberOf(SubSeq(text, 9, 10))>>

\* day a is before day b
DayBefore(a, b) ==
  \E i \in 1..3 : a[i] < b[i] /\ \A j \in 1..(i - 1) : a[j] = b[j]

\* the to bound of the query is written YYYY-MM-DD
ToIsIsoDay ==
  LET t == find.p.to
  IN  /\ Len(t) = 10 /\ t[5] = "-" /\ t[8] = "-"
      /\ AllDigits(SubSeq(t, 1, 4)) /\ AllDigits(SubSeq(t, 6, 7))
      /\ AllDigits(SubSeq(t, 9, 10))

\* C10: with to given as YYYY-MM-DD, a file whose name carries a timestamp
\* on that day is not discarded by the end of the range, and one whose
\* timestamp is on a later day is discarded.
C10_ToIsEndInclusive ==
  (/\ find.stage = "scan" /\ find.last.node # 0 /\ ToIsIsoDay
   /\ MatchesNameTime(NodesOf(source)[find.last.node].name)) =>
    LET name == NodesOf(source)[find.last.node].name
    IN  /\ DayOf(name) = DayOf(find.p.to) => ~find.last.late
        /\ DayBefore(DayOf(find.p.to), DayOf(name)) => find.last.early \/ find.last.late

\* the number of folders between the root and entry i of nodes: 0 for the
\* root itself and for the entries of the root folder
RECURSIVE LevelOf(_, _)
LevelOf(nodes, i) ==
  IF i = 0 \/ nodes[i].parent = 0 THEN 0 ELSE 1 + LevelOf(nodes, nodes[i].parent)

\* the folder a file lies in is at most 3 levels below the root
WithinLevels(nodes, i) ==
  IF nodes[i].parent = 0 THEN TRUE
  ELSE 1 + LevelOf(nodes, nodes[i].parent) <= 3

\* C14: on either backend the traversal covers the root and at most 3 levels
\* of folders below it: every folder whose entries are being looped over,
\* every file listed for the loop, the file the latest pass evaluated and
\* every result, accumulated or returned, lies in a folder at most 3 levels
\* below the root; and a search that ends in an error ended in an error of the
\* file system or of Drive, not at a deeper folder.
C14_TraversalAtMostFourLevels ==
  LET nodes == NodesOf(source)
      FolderLevel(folder) == IF folder = 0 THEN 0 ELSE 1 + LevelOf(nodes, folder)
  IN  /\ find.stage = "scan" =>
           /\ \A k \in 1..Len(find.stack) :
                /\ FolderLevel(find.stack[k].folder) <= 3
                /\ find.stack[k].depth = FolderLevel(find.stack[k].folder)
           /\ \A k \in 1..Len(find.files) : WithinLevels(nodes, find.files[k])
           /\ find.last.node # 0 => WithinLevels(nodes, find.last.node)
           /\ \A k \in 1..Len(find.results) : WithinLevels(nodes, find.results[k].id)
      /\ \A k \in 1..Len(found.results) : WithinLevels(nodes, found.results[k].id)
      /\ (find.stage = "done" /\ ~found.ok) =>
           found.error \in {"Error", "Google Drive error", "Transcripts folder not found"}

\* C14 witness: a search of the folder tree for a keyword that the names of a
\* file 3 levels down and of a file 4 levels down hold has returned ok: true
\* with the first of them and without the second
C14_Witness ==
  LET nodes == NodesOf(source)
  IN  /\ find.stage = "done" /\ found.ok
      /\ \E i \in 1..Len(nodes) :
           /\ nodes[i].mime = TextMime /\ nodes[i].parent # 0 /\ ~WithinLevels(nodes, i)
           /\ Len(found.p.keywords) > 0
           /\ \E k \in 1..Len(KeywordsOf(found.p.keywords)) :
                OccursIn(KeywordsOf(found.p.keywords)[k], nodes[i].name)
           /\ Len(found.results) < LimitOf(found.p.limit).n
      /\ \E k \in 1..Len(found.results) :
           nodes[found.results[k].id].parent # 0
             /\ 1 + LevelOf(nodes, nodes[found.results[k].id].parent) = 3

\* the matches accumulated by the search in progress have reached its limit
LimitIsReached ==
  find.stage = "scan" /\ ~find.limit.nan /\ Len(find.results) >= find.limit.n

\* C15: once the accumulated matches have reached the limit, the scan takes no
\* further candidate: a step of the search then evaluates no file (no date
\* filter, no keyword test, no read), adds no result, moves no loop to its
\* next entry and opens no folder; all it does is return from the calls of
\* scanFolder that are open, and answer.
C15_NothingEvaluatedPastLimit ==
  [][(LimitIsReached /\ find'.stage = "scan") =>
       /\ find'.last = find.last
       /\ find'.reads = find.reads /\ find'.checks = find.checks
       /\ find'.results = find.results
       /\ find'.pos = find.pos
       /\ Len(find'.stack) <= Len(find.stack)
       /\ find'.stack = SubSeq(find.stack, 1, Len(find'.stack))
    ]_vars

\* C15 witness: the limit was reached by a file of a sub-folder, that folder
\* still had an entry to go, and scanFolder has returned to the loop over the
\* root folder, which has entries left
C15_Witness ==
  /\ LimitIsReached /\ find.limit.n > 0
  /\ Len(find.stack) = 1
  /\ find.stack[1].pos <= Len(find.stack[1].items)
  /\ find.last.added /\ NodesOf(source)[find.last.node].parent # 0
  /\ \E i \in 1..Len(NodesOf(source)) :
       /\ NodesOf(source)[i].parent = NodesOf(source)[find.last.node].parent
       /\ i > find.last.node

====
